---- MODULE Spec2Model ----
(***************************************************************************)
(* Model of hadamard.py: the prime / prime-power oracle, the Jacobsthal    *)
(* matrix builder, the recursive Hadamard matrix builder and the existence *)
(* checker check_Hadamard.                                                 *)
(*                                                                         *)
(* Matrices are functions over the 0-based index range of the source:     *)
(* M[i][j] with i, j in 0..n-1.  Python values of mixed type (True,       *)
(* False, None, int) are records [kind, val]; a value is truthy iff its   *)
(* val is nonzero.                                                         *)
(***************************************************************************)
EXTENDS Integers, Sequences, FiniteSets, TLC

VARIABLES
    pn, pres,            \* isprimepower: argument and returned value
    jq, jrows, jret,     \* Jacobsthal: argument, rows built so far, outcome
    cn, cres,            \* check_Hadamard: argument and returned value
    cstack,              \* check_Hadamard: arguments of the active calls
    arg, stack, ret, log \* Hadamard: outermost argument, call stack,
                         \* value handed back by the last finished call,
                         \* debug output (Hadamard.debug = 1)

vars == <<pn, pres, jq, jrows, jret, cn, cres, cstack, arg, stack, ret, log>>

(***************************************************************************)
(* Bounds of the model.                                                    *)
(***************************************************************************)
MaxPP == 130       \* isprimepower is applied to 0..MaxPP
MaxQ == 29         \* Jacobsthal is applied to 0..MaxQ
MaxCheck == 392    \* check_Hadamard is applied to 0..MaxCheck
MaxN == 92         \* Hadamard is applied to 0..MaxN

(***************************************************************************)
(* Python values.                                                          *)
(***************************************************************************)
PyTrue == [kind |-> "bool", val |-> 1]
PyFalse == [kind |-> "bool", val |-> 0]
PyNone == [kind |-> "none", val |-> 0]
PyInt(k) == [kind |-> "int", val |-> k]
Truthy(v) == v.val /= 0

Unset == [kind |-> "unset", val |-> 0]

(***************************************************************************)
(* isprime(n): even n is prime iff n = 2; odd n < 9 iff n > 1; else trial *)
(* division by the odd p in range(3, isqrt(n)+1, 2).                       *)
(***************************************************************************)
isqrt(n) == CHOOSE r \in 0..n : r * r <= n /\ n < (r + 1) * (r + 1)

isprime_lt10(n) ==
    IF n % 2 = 0 THEN n = 2
    ELSE IF n < 10 THEN n > 1
    ELSE \A p \in {d \in 3..isqrt(n) : d % 2 = 1} : n % p /= 0

isprime(n) ==
    IF n % 2 = 0 THEN n = 2
    ELSE IF n < 9 THEN n > 1
    ELSE \A p \in {d \in 3..isqrt(n) : d % 2 = 1} : n % p /= 0

(***************************************************************************)
(* round(n**(1/k)): the integer nearest to the real k-th root of n, i.e.  *)
(* the least r with (2r+1)^k > 2^k * n.  Powers are cut off above the     *)
(* comparison value so that no intermediate exceeds it by more than one   *)
(* factor.  The floating-point power is taken to be exact to within the   *)
(* rounding, which holds for the arguments of the model.                  *)
(***************************************************************************)
RECURSIVE PowCap(_, _, _)
PowCap(b, k, cap) ==
    IF k = 0 THEN 1
    ELSE LET r == PowCap(b, k - 1, cap)
         IN  IF r > cap THEN r ELSE r * b

RECURSIVE RootSearch(_, _, _)
RootSearch(n, k, r) ==
    IF PowCap(2 * r + 1, k, (2 ^ k) * n) > (2 ^ k) * n THEN r
    ELSE RootSearch(n, k, r + 1)

RoundRoot(n, k) == RootSearch(n, k, 0)

(***************************************************************************)
(* isprimepower(n): True for a prime; otherwise the loop over             *)
(* k in range(2, n), which returns False as soon as n >> k is 0, returns  *)
(* k when k is prime, n is the k-th power of r = round(n**(1/k)) and r is *)
(* a prime power, and falls off its end (None) when the range is empty.   *)
(***************************************************************************)
RECURSIVE isprimepower(_), isprimepower_loop(_, _)
isprimepower_loop(n, k) ==
    IF k >= n THEN PyNone
    ELSE IF n \div (2 ^ k) = 0 THEN PyFalse
    ELSE IF /\ isprime(k)
            /\ n = RoundRoot(n, k) ^ k
            /\ Truthy(isprimepower(RoundRoot(n, k)))
         THEN PyInt(k)
         ELSE isprimepower_loop(n, k + 1)

isprimepower(n) == IF isprime(n) THEN PyTrue ELSE isprimepower_loop(n, 2)

(***************************************************************************)
(* Finite-field arithmetic of galois.GF(q) for q = p^k, k > 1.  The       *)
(* integer x stands for the polynomial whose coefficients are the base-p  *)
(* digits of x; products are reduced modulo the Conway polynomial of the  *)
(* field, which galois uses as its default irreducible polynomial.        *)
(***************************************************************************)
GFchar(q) == CHOOSE p \in 2..q : q % p = 0 /\ \A d \in 2..(p - 1) : q % d /= 0

RECURSIVE GFdegreeOf(_, _)
GFdegreeOf(q, p) == IF q <= 1 THEN 0 ELSE 1 + GFdegreeOf(q \div p, p)

GFdegree(q) == GFdegreeOf(q, GFchar(q))

\* coefficients of x^0, x^1, ..., x^k of the Conway polynomial C(p, k)
ConwayPoly(q) ==
    CASE q = 9   -> <<2, 2, 1>>
      [] q = 25  -> <<2, 4, 1>>
      [] q = 27  -> <<1, 2, 0, 1>>
      [] q = 49  -> <<3, 6, 1>>
      [] q = 81  -> <<2, 0, 0, 2, 1>>
      [] q = 121 -> <<2, 7, 1>>
      [] q = 125 -> <<3, 3, 0, 1>>

Digit(x, d, p) == (x \div (p ^ d)) % p

RECURSIVE FromDigits(_, _, _)
FromDigits(f, p, k) ==
    IF k = 0 THEN 0 ELSE f[k - 1] * (p ^ (k - 1)) + FromDigits(f, p, k - 1)

\* The characteristic p, the degree k and the field elements that an
\* operation uses more than once are bound as arguments of a function, so
\* that each is evaluated once per operation.

\* GF(x) - GF(y)
GFsub(q, x, y) ==
    LET sub[p \in {GFchar(q)}, k \in {GFdegree(q)}] ==
            FromDigits([d \in 0..(k - 1) |->
                            (Digit(x, d, p) - Digit(y, d, p)) % p], p, k)
    IN  sub[GFchar(q), GFdegree(q)]

\* a * GF(x) + GF(y) for a scalar a of the prime field of p^k elements
GFaxpy(p, k, a, x, y) ==
    LET plus[s \in 0..(p - 1), v \in Nat] ==
            FromDigits([d \in 0..(k - 1) |->
                            (s * Digit(x, d, p) + Digit(v, d, p)) % p], p, k)
    IN  plus[a, y]

\* GF(x) times the indeterminate, reduced modulo the Conway polynomial
GFshift(q, p, k, x) ==
    LET c == ConwayPoly(q)
        shift[v \in Nat] ==
            LET top == Digit(v, k - 1, p)
                low == (v * p) % q
            IN  FromDigits([d \in 0..(k - 1) |->
                                (Digit(low, d, p) - top * c[d + 1]) % p], p, k)
    IN  shift[x]

\* GF(x) * GF(y), by Horner's rule over the digits of y
RECURSIVE GFmulFrom(_, _, _, _, _, _)
GFmulFrom(q, p, k, x, y, d) ==
    IF d = k THEN 0
    ELSE GFaxpy(p, k, Digit(y, d, p), x,
                GFshift(q, p, k, GFmulFrom(q, p, k, x, y, d + 1)))

GFmul(q, x, y) ==
    LET mul[p \in {GFchar(q)}, k \in {GFdegree(q)}] ==
            GFmulFrom(q, p, k, x, y, 0)
    IN  mul[GFchar(q), GFdegree(q)]

\* GF(z).is_quadratic_residue(): z is the square of some field element
is_quadratic_residue(q, z) ==
    LET qr[v \in 0..(q - 1)] == \E y \in 0..(q - 1) : GFmul(q, y, y) = v
    IN  qr[z]

(***************************************************************************)
(* Jacobsthal(q).                                                          *)
(***************************************************************************)
RECURSIVE bit_length(_)
bit_length(q) == IF q = 0 THEN 0 ELSE 1 + bit_length(q \div 2)

\* q < 3 or q & 1 == 0 and q == 1 << (q.bit_length()-1)
JacobsthalTrivial(q) ==
    q < 3 \/ (q % 2 = 0 /\ q = 2 ^ (bit_length(q) - 1))

\* squares = {k*k % q for k in range(1,q//2+1)}
squares(q) == {(k * k) % q : k \in 1..(q \div 2)}

\* the quadratic residues of the integers mod q, whatever q is
issquare_modq(q, x, y) == ((x - y) % q) \in squares(q)

\* issquare(x, y) as bound by the branch of Jacobsthal(q) that q selects
issquare(q, x, y) ==
    IF isprime(q) THEN ((x - y) % q) \in squares(q)
    ELSE is_quadratic_residue(q, GFsub(q, x, y))

\* Jacobsthal(q) falls through to the final else and raises ValueError
JacobsthalRaises_even(q) ==
    /\ q >= 3
    /\ ~isprime(q)
    /\ (q % 2 = 0 \/ ~Truthy(isprimepower(q)))

JacobsthalRaises(q) ==
    /\ ~JacobsthalTrivial(q)
    /\ ~isprime(q)
    /\ ~Truthy(isprimepower(q))

JacobsthalRow(q, i) ==
    IF JacobsthalTrivial(q)
    THEN [j \in 0..(q - 1) |-> IF i /= j THEN 1 ELSE 0]
    ELSE [j \in 0..(q - 1) |->
              IF i = j THEN 0 ELSE IF issquare(q, i, j) THEN 1 ELSE -1]

\* the matrix returned by Jacobsthal(q) when it does not raise
Jacobsthal(q) == [i \in 0..(q - 1) |-> JacobsthalRow(q, i)]

(***************************************************************************)
(* check_Hadamard(n).                                                      *)
(***************************************************************************)
RECURSIVE check_Hadamard_mod2(_)
check_Hadamard_mod2(n) ==
    IF n < 3 THEN 1
    ELSE IF n % 2 /= 0 THEN 0
    ELSE IF \/ Truthy(isprimepower(n - 1))
            \/ (n % 8 = 4 /\ Truthy(isprimepower(n \div 2 - 1)))
         THEN 1
         ELSE check_Hadamard_mod2(n \div 2)

RECURSIVE check_Hadamard_PaleyIonly(_)
check_Hadamard_PaleyIonly(n) ==
    IF n < 3 THEN 1
    ELSE IF n % 4 /= 0 THEN 0
    ELSE IF Truthy(isprimepower(n - 1)) THEN 1
         ELSE check_Hadamard_PaleyIonly(n \div 2)

RECURSIVE check_Hadamard(_)
check_Hadamard(n) ==
    IF n < 3 THEN 1
    ELSE IF n % 4 /= 0 THEN 0
    ELSE IF \/ Truthy(isprimepower(n - 1))
            \/ (n % 8 = 4 /\ Truthy(isprimepower(n \div 2 - 1)))
         THEN 1
         ELSE check_Hadamard(n \div 2)

(***************************************************************************)
(* Hadamard(n): the case analysis and the matrices it builds.              *)
(***************************************************************************)
NO_SOLUTION == "There is no Hadamard matrix of size n"
NO_CONSTRUCTION_FOUND ==
    "Can only make Hadamard matrix of size n = (prime power + 1) x 2^k"

RetNone == [kind |-> "none", n |-> 0, M |-> <<>>, err |-> ""]
RetMatrix(n, M) == [kind |-> "matrix", n |-> n, M |-> M, err |-> ""]
RetError(n, e) == [kind |-> "error", n |-> n, M |-> <<>>, err |-> e]

\* np.matrix('1,-1;-1,-1')
PaleyD == [i \in 0..1 |-> [j \in 0..1 |-> IF i = 0 /\ j = 0 THEN 1 ELSE -1]]

\* np.matrix('1,1;1,-1' if n==2 else 1 if n else []), for n < 3
HadamardSmall(n) ==
    IF n = 2 THEN [i \in 0..1 |-> [j \in 0..1 |-> IF i = 1 /\ j = 1 THEN -1 ELSE 1]]
    ELSE IF n /= 0 THEN [i \in 0..0 |-> [j \in 0..0 |-> 1]]
    ELSE [i \in 0..0 |-> <<>>]

\* if n & 3: raise ValueError("There is no Hadamard matrix ...")
HadamardImpossible_odd(n) == n % 2 /= 0

HadamardImpossible(n) == n % 4 /= 0

\* if isprimepower(n-1)
UsePaleyI_never(n) == FALSE

UsePaleyI(n) == Truthy(isprimepower(n - 1))

\* if n % 8 == 4 and isprimepower(n//2-1)
UsePaleyII(n) == n % 8 = 4 /\ Truthy(isprimepower(n \div 2 - 1))

\* Paley type I: the bordered Jacobsthal matrix Q of size n-1
HadamardPaleyI(n, Q) ==
    [i \in 0..(n - 1) |-> [j \in 0..(n - 1) |->
        IF i = j \/ i = 0 THEN 1 ELSE IF j = 0 THEN -1 ELSE Q[i - 1][j - 1]]]

\* Paley type II: np.block of n//2 x n//2 blocks D, H or M = -H
HadamardPaleyII(n, Q, H) ==
    [i \in 0..(n - 1) |-> [j \in 0..(n - 1) |->
        LET r == i \div 2
            c == j \div 2
        IN  IF r = c THEN PaleyD[i % 2][j % 2]
            ELSE IF r = 0 \/ c = 0 \/ Q[r - 1][c - 1] > 0 THEN H[i % 2][j % 2]
            ELSE -H[i % 2][j % 2]]]

\* Sylvester: np.block([[H, H], [H, -H]]) for H of size m
HadamardSylvester_plus(m, H) ==
    [i \in 0..(2 * m - 1) |-> [j \in 0..(2 * m - 1) |-> H[i % m][j % m]]]

HadamardSylvester(m, H) ==
    [i \in 0..(2 * m - 1) |-> [j \in 0..(2 * m - 1) |->
        IF i >= m /\ j >= m THEN -H[i % m][j % m] ELSE H[i % m][j % m]]]

\* except: raise ValueError("Can only make Hadamard matrix of size ...")
HadamardExceptError_reraise(e) == e

HadamardExceptError(e) == NO_CONSTRUCTION_FOUND

(***************************************************************************)
(* State.                                                                  *)
(***************************************************************************)
Init ==
    /\ pn = 0 /\ pres = Unset
    /\ jq = 0 /\ jrows = <<>> /\ jret = "idle"
    /\ cn = 0 /\ cres = Unset /\ cstack = <<>>
    /\ arg = 0 /\ stack = <<>> /\ ret = RetNone /\ log = <<>>

varsPP == <<pn, pres>>
varsJ == <<jq, jrows, jret>>
varsC == <<cn, cres, cstack>>
varsH == <<arg, stack, ret, log>>

(***************************************************************************)
(* isprimepower is called on n.                                            *)
(***************************************************************************)
IsPrimePowerCall(n) ==
    /\ pn' = n
    /\ pres' = isprimepower(n)
    /\ UNCHANGED <<varsJ, varsC, varsH>>

NextPP == \E n \in 0..MaxPP : IsPrimePowerCall(n)

SpecPP == Init /\ [][NextPP]_vars

(***************************************************************************)
(* check_Hadamard is called on n.                                          *)
(***************************************************************************)
CheckHadamardCall(n) ==
    /\ cn' = n
    /\ cres' = PyInt(check_Hadamard(n))
    /\ UNCHANGED cstack
    /\ UNCHANGED <<varsPP, varsJ, varsH>>

NextCheck == \E n \in 0..MaxCheck : CheckHadamardCall(n)

SpecCheck == Init /\ [][NextCheck]_vars

(***************************************************************************)
(* Jacobsthal(q), the rows of the result being built one after the other. *)
(***************************************************************************)
JacobsthalCall(q) ==
    /\ jret /= "running"
    /\ jq' = q
    /\ jrows' = <<>>
    /\ jret' = "running"
    /\ UNCHANGED <<varsPP, varsC, varsH>>

JacobsthalRaise ==
    /\ jret = "running"
    /\ JacobsthalRaises(jq)
    /\ jret' = "ValueError"
    /\ UNCHANGED <<jq, jrows, varsPP, varsC, varsH>>

JacobsthalBuildRow ==
    /\ jret = "running"
    /\ ~JacobsthalRaises(jq)
    /\ LET i == Cardinality(DOMAIN jrows)
       IN  /\ i < jq
           /\ jrows' = [r \in 0..i |->
                           IF r < i THEN jrows[r] ELSE JacobsthalRow(jq, i)]
    /\ UNCHANGED <<jq, jret, varsPP, varsC, varsH>>

JacobsthalReturn ==
    /\ jret = "running"
    /\ ~JacobsthalRaises(jq)
    /\ Cardinality(DOMAIN jrows) = jq
    /\ jret' = "matrix"
    /\ UNCHANGED <<jq, jrows, varsPP, varsC, varsH>>

NextJ ==
    \/ \E q \in 0..MaxQ : JacobsthalCall(q)
    \/ JacobsthalRaise
    \/ JacobsthalBuildRow
    \/ JacobsthalReturn

SpecJ == Init /\ [][NextJ]_vars

(***************************************************************************)
(* Hadamard(n): one frame [n, pc] per active call.  pc is "start" in a    *)
(* call that has not yet chosen its branch, "paley2" while the Paley type *)
(* II branch waits for Hadamard(2), "try" while the try block waits for   *)
(* Hadamard(n >> 1).  log is the output of the two print statements under *)
(* Hadamard.debug = 1: the q of the Jacobsthal matrix and the residue     *)
(* mod 4 that the message announces for it.                               *)
(***************************************************************************)
Top == stack[Len(stack)]
Pop == SubSeq(stack, 1, Len(stack) - 1)
Starting == stack /= <<>> /\ Top.pc = "start" /\ ret.kind = "none"

HadamardCall(n) ==
    /\ stack = <<>>
    /\ arg' = n
    /\ stack' = <<[n |-> n, pc |-> "start"]>>
    /\ ret' = RetNone
    /\ log' = <<>>
    /\ UNCHANGED <<varsPP, varsJ, varsC>>

HadamardBase ==
    /\ Starting
    /\ Top.n < 3
    /\ ret' = RetMatrix(Top.n, HadamardSmall(Top.n))
    /\ stack' = Pop
    /\ UNCHANGED <<arg, log, varsPP, varsJ, varsC>>

HadamardNoSolution ==
    /\ Starting
    /\ Top.n >= 3
    /\ HadamardImpossible(Top.n)
    /\ ret' = RetError(Top.n, NO_SOLUTION)
    /\ stack' = Pop
    /\ UNCHANGED <<arg, log, varsPP, varsJ, varsC>>

HadamardTypeI ==
    /\ Starting
    /\ Top.n >= 3
    /\ ~HadamardImpossible(Top.n)
    /\ UsePaleyI(Top.n)
    /\ log' = Append(log, [q |-> Top.n - 1, mod4 |-> 3])
    /\ ret' = RetMatrix(Top.n, HadamardPaleyI(Top.n, Jacobsthal(Top.n - 1)))
    /\ stack' = Pop
    /\ UNCHANGED <<arg, varsPP, varsJ, varsC>>

HadamardTypeIICall ==
    /\ Starting
    /\ Top.n >= 3
    /\ ~HadamardImpossible(Top.n)
    /\ ~UsePaleyI(Top.n)
    /\ UsePaleyII(Top.n)
    /\ log' = Append(log, [q |-> Top.n \div 2 - 1, mod4 |-> 1])
    /\ stack' = Append([stack EXCEPT ![Len(stack)].pc = "paley2"],
                       [n |-> 2, pc |-> "start"])
    /\ UNCHANGED <<arg, ret, varsPP, varsJ, varsC>>

HadamardTypeIIBuild ==
    /\ stack /= <<>>
    /\ Top.pc = "paley2"
    /\ ret.kind = "matrix"
    /\ ret' = RetMatrix(Top.n, HadamardPaleyII(Top.n,
                                   Jacobsthal(Top.n \div 2 - 1), ret.M))
    /\ stack' = Pop
    /\ UNCHANGED <<arg, log, varsPP, varsJ, varsC>>

HadamardTry ==
    /\ Starting
    /\ Top.n >= 3
    /\ ~HadamardImpossible(Top.n)
    /\ ~UsePaleyI(Top.n)
    /\ ~UsePaleyII(Top.n)
    /\ stack' = Append([stack EXCEPT ![Len(stack)].pc = "try"],
                       [n |-> Top.n \div 2, pc |-> "start"])
    /\ UNCHANGED <<arg, ret, log, varsPP, varsJ, varsC>>

HadamardDouble ==
    /\ stack /= <<>>
    /\ Top.pc = "try"
    /\ ret.kind = "matrix"
    /\ ret' = RetMatrix(Top.n, HadamardSylvester(ret.n, ret.M))
    /\ stack' = Pop
    /\ UNCHANGED <<arg, log, varsPP, varsJ, varsC>>

HadamardExcept ==
    /\ stack /= <<>>
    /\ Top.pc = "try"
    /\ ret.kind = "error"
    /\ ret' = RetError(Top.n, HadamardExceptError(ret.err))
    /\ stack' = Pop
    /\ UNCHANGED <<arg, log, varsPP, varsJ, varsC>>

Next ==
    \/ \E n \in 0..MaxN : HadamardCall(n)
    \/ HadamardBase
    \/ HadamardNoSolution
    \/ HadamardTypeI
    \/ HadamardTypeIICall
    \/ HadamardTypeIIBuild
    \/ HadamardTry
    \/ HadamardDouble
    \/ HadamardExcept

Spec == Init /\ [][Next]_vars

(***************************************************************************)
(* check_Hadamard(n) call by call: cstack holds the argument of every     *)
(* active call, cres is Unset until the innermost call returns, and each  *)
(* caller then returns the value it was handed.                            *)
(***************************************************************************)
\* check_Hadamard(n >> 1)
CheckNextArg_same(n) == n

CheckNextArg(n) == n \div 2

\* isprimepower(n-1) or (n % 8 == 4 and isprimepower(n//2-1))
CheckPaley(n) ==
    \/ Truthy(isprimepower(n - 1))
    \/ (n % 8 = 4 /\ Truthy(isprimepower(n \div 2 - 1)))

CTop == cstack[Len(cstack)]
CPop == SubSeq(cstack, 1, Len(cstack) - 1)
CStarting == cstack /= <<>> /\ cres = Unset

CheckCall(n) ==
    /\ cstack = <<>>
    /\ cn' = n
    /\ cstack' = <<n>>
    /\ cres' = Unset
    /\ UNCHANGED <<varsPP, varsJ, varsH>>

CheckBase ==
    /\ CStarting
    /\ CTop < 3
    /\ cres' = PyInt(1)
    /\ cstack' = CPop
    /\ UNCHANGED <<cn, varsPP, varsJ, varsH>>

CheckImpossible ==
    /\ CStarting
    /\ CTop >= 3
    /\ CTop % 4 /= 0
    /\ cres' = PyInt(0)
    /\ cstack' = CPop
    /\ UNCHANGED <<cn, varsPP, varsJ, varsH>>

CheckFound ==
    /\ CStarting
    /\ CTop >= 3
    /\ CTop % 4 = 0
    /\ CheckPaley(CTop)
    /\ cres' = PyInt(1)
    /\ cstack' = CPop
    /\ UNCHANGED <<cn, varsPP, varsJ, varsH>>

CheckRecurse ==
    /\ CStarting
    /\ CTop >= 3
    /\ CTop % 4 = 0
    /\ ~CheckPaley(CTop)
    /\ cstack' = Append(cstack, CheckNextArg(CTop))
    /\ UNCHANGED <<cn, cres, varsPP, varsJ, varsH>>

CheckReturn ==
    /\ cstack /= <<>>
    /\ cres /= Unset
    /\ cstack' = CPop
    /\ UNCHANGED <<cn, cres, varsPP, varsJ, varsH>>

CheckStep ==
    \/ CheckBase
    \/ CheckImpossible
    \/ CheckFound
    \/ CheckRecurse
    \/ CheckReturn

HadamardStep ==
    \/ HadamardBase
    \/ HadamardNoSolution
    \/ HadamardTypeI
    \/ HadamardTypeIICall
    \/ HadamardTypeIIBuild
    \/ HadamardTry
    \/ HadamardDouble
    \/ HadamardExcept

(***************************************************************************)
(* Runs of either function to completion.  The two functions share no     *)
(* state, so a run calls one of them, any number of times; a call that    *)
(* has started keeps executing (weak fairness of its steps).              *)
(***************************************************************************)
NextTerm ==
    \/ \E n \in 0..MaxN :
           HadamardCall(n) /\ cstack = <<>> /\ cres = Unset
    \/ \E n \in 0..MaxCheck :
           CheckCall(n) /\ stack = <<>> /\ ret.kind = "none"
    \/ HadamardStep
    \/ CheckStep

SpecTerm ==
    Init /\ [][NextTerm]_vars /\ WF_vars(HadamardStep) /\ WF_vars(CheckStep)

(***************************************************************************)
(* Notions the properties are stated with, defined without reference to   *)
(* the operators above.                                                    *)
(***************************************************************************)
IsPrimeNumber(n) == n > 1 /\ \A d \in 2..(n - 1) : n % d /= 0

PrimeDivisors(n) == {p \in 2..n : IsPrimeNumber(p) /\ n % p = 0}

IsPrimePower(n) == n > 1 /\ Cardinality(PrimeDivisors(n)) = 1

RECURSIVE Multiplicity(_, _)
Multiplicity(n, p) == IF n % p /= 0 THEN 0 ELSE 1 + Multiplicity(n \div p, p)

\* the k of n = p^k, for a prime power n
ExponentOf(n) == Multiplicity(n, CHOOSE p \in PrimeDivisors(n) : TRUE)

SmallestPrimeFactor(k) == CHOOSE p \in PrimeDivisors(k) : \A r \in PrimeDivisors(k) : p <= r

RECURSIVE DotFrom(_, _, _)
DotFrom(a, b, n) == IF n = 0 THEN 0 ELSE a[n - 1] * b[n - 1] + DotFrom(a, b, n - 1)

RECURSIVE SumFrom(_, _)
SumFrom(a, n) == IF n = 0 THEN 0 ELSE a[n - 1] + SumFrom(a, n - 1)

IsSquareMatrix(M, n) ==
    /\ DOMAIN M = 0..(n - 1)
    /\ \A i \in 0..(n - 1) : DOMAIN M[i] = 0..(n - 1)

\* M is n x n with entries +1 or -1 and M * M^T = n * I
IsHadamardMatrix(M, n) ==
    /\ IsSquareMatrix(M, n)
    /\ \A i, j \in 0..(n - 1) : M[i][j] \in {1, -1}
    /\ \A i, k \in 0..(n - 1) :
           DotFrom(M[i], M[k], n) = IF i = k THEN n ELSE 0

\* J is q x q with zero diagonal, +1 or -1 elsewhere, zero row and column
\* sums, and J * J^T = q * I - U
IsJacobsthalMatrix(J, q) ==
    /\ IsSquareMatrix(J, q)
    /\ \A i, j \in 0..(q - 1) :
           IF i = j THEN J[i][j] = 0 ELSE J[i][j] \in {1, -1}
    /\ \A i \in 0..(q - 1) : SumFrom(J[i], q) = 0
    /\ \A j \in 0..(q - 1) : SumFrom([i \in 0..(q - 1) |-> J[i][j]], q) = 0
    /\ \A i, k \in 0..(q - 1) :
           DotFrom(J[i], J[k], q) = IF i = k THEN q - 1 ELSE -1

HadamardDone == stack = <<>> /\ ret.kind /= "none"

CheckDone == cstack = <<>> /\ cres /= Unset

(***************************************************************************)
(* C1: every matrix returned by a call Hadamard(n) with n >= 1, at any    *)
(* level of the recursion and whatever branch built it, is n x n, has all *)
(* entries +1 or -1 and satisfies M * M^T = n * I.                        *)
(***************************************************************************)
C1_HadamardProperty ==
    (ret.kind = "matrix" /\ ret.n >= 1) => IsHadamardMatrix(ret.M, ret.n)

\* Hadamard(52) has returned the Paley type II matrix built over GF(25)
C1_Witness ==
    /\ HadamardDone /\ arg = 52 /\ ret.kind = "matrix"
    /\ log = <<[q |-> 25, mod4 |-> 1]>>
    /\ IsHadamardMatrix(ret.M, 52)

(***************************************************************************)
(* C2: whenever a call Hadamard(n) finishes, at any level of the          *)
(* recursion, it has returned a matrix iff check_Hadamard(n) is truthy.   *)
(***************************************************************************)
C2_CheckAgreesWithBuilder ==
    ret.kind /= "none" => ((check_Hadamard(ret.n) /= 0) <=> ret.kind = "matrix")

\* Hadamard(92) has failed and check_Hadamard(92) is 0
C2_Witness ==
    HadamardDone /\ arg = 92 /\ ret.kind = "error" /\ check_Hadamard(arg) = 0

(***************************************************************************)
(* C3: the outermost call reports NO_SOLUTION exactly when n > 2 and n is *)
(* not a multiple of 4; every failure on a multiple of 4 is reported as   *)
(* NO_CONSTRUCTION_FOUND; Hadamard(6) reports NO_SOLUTION and Hadamard(92)*)
(* reports NO_CONSTRUCTION_FOUND, neither returning a matrix.             *)
(***************************************************************************)
C3_ErrorKinds ==
    HadamardDone =>
        /\ (ret.kind = "error" /\ ret.err = NO_SOLUTION) <=> (arg > 2 /\ arg % 4 /= 0)
        /\ (arg % 4 = 0 /\ ret.kind = "error") => ret.err = NO_CONSTRUCTION_FOUND
        /\ arg = 6 => (ret.kind = "error" /\ ret.err = NO_SOLUTION)
        /\ arg = 92 => (ret.kind = "error" /\ ret.err = NO_CONSTRUCTION_FOUND)

\* Hadamard(92) has converted the error of Hadamard(46)
C3_Witness ==
    HadamardDone /\ arg = 92 /\ ret.n = 92 /\ ret.err = NO_CONSTRUCTION_FOUND

(***************************************************************************)
(* C4 as stated: check_Hadamard(n) is false for every odd n > 1 and every *)
(* n = 2 (mod 4).                                                          *)
(***************************************************************************)
C4_FalseOffMultiplesOf4_Original ==
    (cres /= Unset /\ ((cn % 2 = 1 /\ cn > 1) \/ cn % 4 = 2)) => ~Truthy(cres)

(***************************************************************************)
(* C4 amended: check_Hadamard(n) is false for every n > 2 that is odd or  *)
(* = 2 (mod 4).                                                            *)
(***************************************************************************)
C4_FalseOffMultiplesOf4 ==
    (cres /= Unset /\ cn > 2 /\ cn % 4 /= 0) => ~Truthy(cres)

\* check_Hadamard(6) has returned 0
C4_Witness == cn = 6 /\ cres = PyInt(0)

C6_JacobsthalErrors ==
    (jret \in {"ValueError", "matrix"}) =>
        /\ (jret = "ValueError") <=> (jq >= 3 /\ ~IsPrimePower(jq))
        /\ (jret = "matrix") => IsSquareMatrix(jrows, jq)
        /\ (jq <= 29) =>
               ((jret = "ValueError") <=>
                    jq \in {6, 10, 12, 14, 18, 20, 22, 24, 26, 28, 15, 21})

\* Jacobsthal(15) has raised
C6_Witness == jret = "ValueError" /\ jq = 15

(***************************************************************************)
(* C7: isprimepower(n) is truthy exactly when n = p^k, p prime, k >= 1;   *)
(* it is then True if k = 1 and the smallest prime factor of k if k > 1;  *)
(* over 0..30 the truthy inputs are 2,3,4,5,7,8,9,11,13,16,17,19,23,25,   *)
(* 27,29.                                                                  *)
(***************************************************************************)
C7_IsPrimePowerValue ==
    (pres /= Unset) =>
        /\ Truthy(pres) <=> IsPrimePower(pn)
        /\ IsPrimePower(pn) =>
               pres = IF ExponentOf(pn) = 1 THEN PyTrue
                      ELSE PyInt(SmallestPrimeFactor(ExponentOf(pn)))
        /\ (pn <= 30) =>
               (Truthy(pres) <=>
                    pn \in {2, 3, 4, 5, 7, 8, 9, 11, 13, 16, 17, 19, 23, 25, 27, 29})

\* isprimepower(64) has returned 2, the smallest prime factor of 6
C7_Witness == pn = 64 /\ pres = PyInt(2) /\ ExponentOf(pn) = 6

(***************************************************************************)
(* C8 as stated: Hadamard(20) succeeds through Paley type II with the     *)
(* Jacobsthal matrix of q = 9.                                             *)
(***************************************************************************)
C8_Hadamard20_Original ==
    (HadamardDone /\ arg = 20) =>
        (ret.kind = "matrix" /\ log = <<[q |-> 9, mod4 |-> 1]>>)

(***************************************************************************)
(* C8 amended: Hadamard(20) succeeds through Paley type I with the        *)
(* Jacobsthal matrix of q = 19; Paley type II is used only on an n for    *)
(* which n - 1 is not a prime power.                                       *)
(***************************************************************************)
C8_Hadamard20 ==
    /\ (HadamardDone /\ arg = 20) =>
           (ret.kind = "matrix" /\ log = <<[q |-> 19, mod4 |-> 3]>>)
    /\ \A i \in 1..Len(log) :
           log[i].mod4 = 1 => ~IsPrimePower(2 * log[i].q + 1)

\* Hadamard(20) has returned a matrix
C8_Witness ==
    HadamardDone /\ arg = 20 /\ ret.kind = "matrix" /\ ret.n = 20 /\ Len(log) = 1

(***************************************************************************)
(* C9: for m in 0..98, check_Hadamard(4*m) is false exactly for m in      *)
(* {23,29,39,43,46,47,58,59,65,67,73,81,89,93,94}.                        *)
(***************************************************************************)
C9_NoConstructionList ==
    (cres /= Unset /\ cn % 4 = 0 /\ cn \div 4 <= 98) =>
        (~Truthy(cres) <=>
             (cn \div 4) \in {23, 29, 39, 43, 46, 47, 58, 59, 65, 67, 73, 81, 89, 93, 94})

\* check_Hadamard(92) has returned 0
C9_Witness == cn = 4 * 23 /\ cres /= Unset /\ ~Truthy(cres)

(***************************************************************************)
(* C10: at every level of the recursion, Paley type I is taken only with  *)
(* q = n - 1 = 3 (mod 4) and Paley type II only with q = n/2 - 1 = 1      *)
(* (mod 4): the residue announced in the debug output is the residue of q.*)
(***************************************************************************)
C10_PaleyResidues ==
    \A i \in 1..Len(log) :
        /\ log[i].q % 4 = log[i].mod4
        /\ IsPrimePower(log[i].q)

\* Hadamard(88) has used Paley type I with q = 43 one level down
C10_Witness ==
    HadamardDone /\ arg = 88 /\ ret.kind = "matrix" /\ log = <<[q |-> 43, mod4 |-> 3]>>

(***************************************************************************)
(* C11 as stated, the part about the shape of the recursion: every        *)
(* recursive call of Hadamard and of check_Hadamard is made on n/2 by a   *)
(* call whose n >= 4 is divisible by 4.                                    *)
(***************************************************************************)
C11_RecursionOnHalf_Original ==
    [][/\ (Len(stack') > Len(stack) /\ stack /= <<>>) =>
              /\ Top.n >= 4 /\ Top.n % 4 = 0
              /\ stack'[Len(stack')].n = Top.n \div 2
       /\ (Len(cstack') > Len(cstack) /\ cstack /= <<>>) =>
              /\ CTop >= 4 /\ CTop % 4 = 0
              /\ cstack'[Len(cstack')] = CTop \div 2]_vars

(***************************************************************************)
(* C11 amended: every call of Hadamard(n) and of check_Hadamard(n)        *)
(* finishes, Hadamard with a matrix or one of its two errors and          *)
(* check_Hadamard with 0 or 1.  Every recursive call is made by a call    *)
(* whose n >= 4 is divisible by 4, on n/2 or, from the Paley type II      *)
(* branch of Hadamard, on 2; so the argument strictly decreases.  A call  *)
(* that returns without recursing, inside the recursion, took a Paley     *)
(* step or has an argument not divisible by 4.                             *)
(***************************************************************************)
C11_Termination ==
    /\ (stack /= <<>>) ~> HadamardDone
    /\ (cstack /= <<>>) ~> CheckDone
    /\ [](HadamardDone =>
            /\ ret.n = arg
            /\ \/ ret.kind = "matrix"
               \/ ret.kind = "error" /\ ret.err \in {NO_SOLUTION, NO_CONSTRUCTION_FOUND})
    /\ [](CheckDone => cres \in {PyInt(0), PyInt(1)})
    /\ [][/\ (Len(stack') > Len(stack) /\ stack /= <<>>) =>
              /\ Top.n >= 4 /\ Top.n % 4 = 0
              /\ stack'[Len(stack')].n < Top.n
              /\ \/ stack'[Len(stack')].n = Top.n \div 2
                 \/ /\ stack'[Len(stack')].n = 2
                    /\ stack'[Len(stack)].pc = "paley2"
          /\ (Len(cstack') > Len(cstack) /\ cstack /= <<>>) =>
              /\ CTop >= 4 /\ CTop % 4 = 0
              /\ cstack'[Len(cstack')] < CTop
              /\ cstack'[Len(cstack')] = CTop \div 2
          /\ (Len(stack) >= 2 /\ Top.pc = "start" /\ stack' = Pop) =>
              (Top.n % 4 /= 0 \/ Len(log') > Len(log))
          /\ (Len(cstack) >= 2 /\ cres = Unset /\ cstack' = CPop) =>
              (CTop % 4 /= 0 \/ CheckPaley(CTop))]_vars

\* Hadamard(36) is waiting in its Paley type II branch for Hadamard(2)
C11_Witness ==
    /\ arg = 36
    /\ stack = <<[n |-> 36, pc |-> "paley2"], [n |-> 2, pc |-> "start"]>>

====
